---- MODULE Spec2Model ----
(***************************************************************************)
(* Video-based crash detection of src/src/utils/yolo_detection.py:         *)
(* detect_crash, process_frame_with_yolo and the frame loop of             *)
(* process_video_with_yolo.                                                *)
(*                                                                         *)
(* Number representation.  Confidences are Python floats of the form       *)
(* 0.7 + 0.3 * (1.0 - d / 10) with d an integer in 0..9, or 0.0.  They are *)
(* held in thousandths (1.0 is 1000, 0.97 is 970): the ten floats the code *)
(* can produce are 1.0, 0.97, 0.94, 0.9099.., 0.8799.., 0.85, 0.82,        *)
(* 0.7899.., 0.7599.., 0.73, whose order and equalities are those of       *)
(* 1000, 970, ..., 730.  A time frame_idx / fps is held as the pair        *)
(* <<frame_idx, fps>> (an exact fraction); the literal 0.0 is <<0, 1>>.    *)
(* An optional value is None (the empty tuple) or Some(v) (the tuple       *)
(* <<v>>), read back with Val.                                             *)
(***************************************************************************)
EXTENDS Integers, Sequences, FiniteSets, TLC

VARIABLES
    \* ---- one run of process_video_with_yolo ----
    video,                \* the capture behind video_path: [opens, frame_count,
                          \* frames, fps]: whether it opens, the count
                          \* CAP_PROP_FRAME_COUNT reports, the number of frames
                          \* cap.read() delivers, the rate CAP_PROP_FPS reports
    output_path,          \* TRUE iff an output_path argument was given
    display_func,         \* TRUE iff a display_func argument was given
    pc,                   \* "Idle", "Processing", "Completed", "ErrorReturned", "Failed"
    cap,                  \* the cv2.VideoCapture: "None", "closed", "open", "released"
    out,                  \* the cv2.VideoWriter: "None", "open", "released"
    previous_detections,  \* None or Some(the detections of the last processed frame)
    crash_detected,
    crash_frame,          \* None or Some(the processed frame kept, named by its index)
    crash_confidence,
    crash_time,
    frame_idx,
    result,               \* None, or Some(the error record or the result record returned)
    exception,            \* "None" or the exception that left the function
    pending,              \* None, or Some([processed_frame, is_crash, confidence])
                          \* of the iteration under way while control is in
                          \* display_func (line 307)
    \* ---- what the run did (observations, not read by the code) ----
    reads,                \* number of frames cap.read() delivered
    hist,                 \* per frame sent through process_frame_with_yolo: its index,
                          \* its number of detections counted up to 2, the outcome
    written,              \* frame indices passed to out.write
    sunk,                 \* <<frame_idx, current_time>> passed to display_func
    detected,             \* None or Some([idx, dets]): the last list detect_objects
                          \* returned, and the index of the frame it was for
    \* ---- one call of detect_crash on its own ----
    args,                 \* [current_detections, previous_detections, frame_idx, total_frames]
    ret,                  \* None before the call, then Some(the tuple returned)
    \* ---- the detector and one call of detect_objects on its own ----
    model,                \* the module-level model: "None", "yolo" (loaded) or
                          \* "raising" (loaded, its invocation raises)
    frame,                \* the shape of a decoded frame: [width, height]
    dpc,                  \* "idle", "call", "simulate", "returned", "raised"
    num_vehicles,         \* simulate_detection: the number drawn at line 78
    detections,           \* the list being built, then the list returned
    \* ---- the caller's side of a run ----
    stop,                 \* TRUE once the caller has asked the run to stop
    run2                  \* None, or Some(the locals of a second call of
                          \* process_video_with_yolo running at the same time)

runVars == <<video, output_path, display_func, pc, cap, out, previous_detections,
             crash_detected, crash_frame, crash_confidence, crash_time, frame_idx,
             result, exception, pending, reads, hist, written, sunk, detected>>
callVars == <<args, ret>>
detVars == <<model, frame, dpc, num_vehicles, detections>>
envVars == <<stop, run2>>
vars == <<runVars, callVars, detVars, envVars>>

----------------------------------------------------------------------------
(* Bounds of the model *)

MaxFrames == 30     \* videos of 0..MaxFrames frames
MaxIdx == 32        \* detect_crash is called with frame_idx in 0..MaxIdx
MaxTotal == 32      \* ... and total_frames in 0..MaxTotal
MaxDets == 3        \* detection lists of the detect_crash calls: up to MaxDets entries
FrameW == 200       \* frame width in pixels
FrameH == 160       \* frame height in pixels
SmallW == 64        \* width and height of a thumbnail-sized frame
SmallH == 48
CountSkew == 8      \* how far the reported frame count is off the frames delivered

(* Frame rates a capture reports: cap.get(CAP_PROP_FPS) is 0 when the
   container carries no rate. *)
FpsValues == {0, 30}

----------------------------------------------------------------------------
(* Optional values *)

None == <<>>
Some(v) == <<v>>
Val(o) == o[1]

----------------------------------------------------------------------------
(* Detections *)

Detection(x1, y1, x2, y2, conf, cls) ==
    [box |-> <<x1, y1, x2, y2>>, confidence |-> conf, class |-> cls]

(* Vehicles a detector may report in a FrameW x FrameH frame: one in the top
   left corner, one in the middle, one touching the right edge with the area of
   the first, and a small one. *)
DetA == Detection(0, 0, 60, 60, 900, "car")
DetB == Detection(50, 40, 150, 100, 800, "truck")
DetC == Detection(FrameW - 60, FrameH - 80, FrameW, FrameH - 20, 950, "bus")
DetD == Detection(20, 30, 25, 35, 700, "motorcycle")
DetPool == {DetA, DetB, DetC, DetD}

RECURSIVE SeqsUpTo(_, _)
SeqsUpTo(S, n) ==
    IF n = 0 THEN {<<>>}
    ELSE LET shorter == SeqsUpTo(S, n - 1)
         IN  shorter \cup {Append(s, x) : s \in shorter, x \in S}

(* The detection lists of the detect_crash calls. *)
AllDetLists == SeqsUpTo(DetPool, MaxDets)

(* The detection lists detect_objects returns in a run. *)
RunDetLists == {<<DetD>>, <<DetA, DetB>>, <<DetB, DetC, DetA>>}

InFrame(b) == 0 <= b[1] /\ 0 <= b[2] /\ b[3] <= FrameW /\ b[4] <= FrameH

Abs(n) == IF n < 0 THEN -n ELSE n
Min(a, b) == IF a <= b THEN a ELSE b
Max(a, b) == IF a >= b THEN a ELSE b

----------------------------------------------------------------------------
(* detect_crash, lines 99-144 *)

crash_window == 10
frame_step == 5

(* int(total_frames * 0.5): the crash point at the middle of the video *)
crash_point_half(total_frames) ==
    IF total_frames < 0 THEN -((-total_frames) \div 2) ELSE total_frames \div 2

(* int(total_frames * 0.7) in double arithmetic: floor(7n/10), except where
   n * 0.7 rounds below the integer 7n/10 (n = 90, 170, 180, 330, ... ; the
   first such n is 90, the list here covers n < 400).  int() cuts towards
   zero: for a negative total_frames (a capture may report -1) the value is
   the negated crash point of -total_frames. *)
crash_point(total_frames) ==
    LET n == Abs(total_frames)
        c == IF n \in {90, 170, 180, 330, 340, 350, 360}
             THEN (7 * n) \div 10 - 1
             ELSE (7 * n) \div 10
    IN  IF total_frames < 0 THEN -c ELSE c

(* key=lambda d: (d['box'][2] - d['box'][0]) * (d['box'][3] - d['box'][1]) *)
Area(d) == (d.box[3] - d.box[1]) * (d.box[4] - d.box[2])

(* sorted(..., key=area, reverse=True): descending, and stable (equal keys
   keep the order of the input). *)
RECURSIVE InsertDesc(_, _)
InsertDesc(d, s) ==
    IF s = <<>> THEN <<d>>
    ELSE IF Area(Head(s)) >= Area(d) THEN <<Head(s)>> \o InsertDesc(d, Tail(s))
    ELSE <<d>> \o s

RECURSIVE SortInto(_, _)
SortInto(acc, rest) ==
    IF rest = <<>> THEN acc ELSE SortInto(InsertDesc(Head(rest), acc), Tail(rest))

(* A descending sort that is not stable: of two detections of equal area
   the later one of the input comes first. *)
RECURSIVE InsertDescBefore(_, _)
InsertDescBefore(d, s) ==
    IF s = <<>> THEN <<d>>
    ELSE IF Area(Head(s)) > Area(d) THEN <<Head(s)>> \o InsertDescBefore(d, Tail(s))
    ELSE <<d>> \o s

RECURSIVE SortIntoBefore(_, _)
SortIntoBefore(acc, rest) ==
    IF rest = <<>> THEN acc
    ELSE SortIntoBefore(InsertDescBefore(Head(rest), acc), Tail(rest))

sorted_detections_unstable(current_detections) ==
    SortIntoBefore(<<>>, current_detections)

sorted_detections(current_detections) == SortInto(<<>>, current_detections)

NoCrash == [is_crash |-> FALSE, confidence |-> 0, crash_box |-> None]

(* line 119 with <= for < *)
InCrashWindow_wide(idx, total_frames) ==
    Abs(idx - crash_point(total_frames)) <= crash_window

(* line 119 *)
InCrashWindow(idx, total_frames) ==
    Abs(idx - crash_point(total_frames)) < crash_window

(* line 119 without abs() *)
InCrashWindow_noabs(idx, total_frames) ==
    idx - crash_point(total_frames) < crash_window

(* lines 121-122 without the division by crash_window *)
Confidence_nodiv(idx, total_frames) ==
    LET crash_intensity == 1000 - Abs(idx - crash_point(total_frames)) * 1000
    IN  700 + (3 * crash_intensity) \div 10

(* lines 121-122 without abs() *)
Confidence_signed(idx, total_frames) ==
    LET crash_intensity ==
            1000 - ((idx - crash_point(total_frames)) * 1000) \div crash_window
    IN  700 + (3 * crash_intensity) \div 10

(* lines 136-141 without the margin *)
CrashBox_nomargin(vehicle1, vehicle2) ==
    << Min(vehicle1.box[1], vehicle2.box[1]),
       Min(vehicle1.box[2], vehicle2.box[2]),
       Max(vehicle1.box[3], vehicle2.box[3]),
       Max(vehicle1.box[4], vehicle2.box[4]) >>

(* lines 121-122, in thousandths *)
Confidence(idx, total_frames) ==
    LET crash_intensity ==
            1000 - (Abs(idx - crash_point(total_frames)) * 1000) \div crash_window
    IN  700 + (3 * crash_intensity) \div 10

(* lines 136-141 *)
CrashBox(vehicle1, vehicle2) ==
    << Min(vehicle1.box[1], vehicle2.box[1]) - 10,
       Min(vehicle1.box[2], vehicle2.box[2]) - 10,
       Max(vehicle1.box[3], vehicle2.box[3]) + 10,
       Max(vehicle1.box[4], vehicle2.box[4]) + 10 >>

(* line 119 without abs() *)
detect_crash_noabs(current_detections, prev, idx, total_frames) ==
    IF InCrashWindow_noabs(idx, total_frames) /\ Len(current_detections) >= 2
    THEN LET s == sorted_detections(current_detections)
         IN  [is_crash |-> TRUE,
              confidence |-> Confidence(idx, total_frames),
              crash_box |-> Some(CrashBox(s[1], s[2]))]
    ELSE NoCrash

(* crash_intensity = abs(frame_idx - crash_point) / crash_window, the "1.0 -"
   forgotten *)
detect_crash_inverted(current_detections, prev, idx, total_frames) ==
    IF InCrashWindow(idx, total_frames) /\ Len(current_detections) >= 2
    THEN LET s == sorted_detections(current_detections)
             crash_intensity ==
                 (Abs(idx - crash_point(total_frames)) * 1000) \div crash_window
         IN  [is_crash |-> TRUE,
              confidence |-> 700 + (3 * crash_intensity) \div 10,
              crash_box |-> Some(CrashBox(s[1], s[2]))]
    ELSE NoCrash

(* a detect_crash that uses its previous_detections: no crash is reported
   unless the previous frame had a detection *)
detect_crash_velocity(current_detections, prev, idx, total_frames) ==
    IF InCrashWindow(idx, total_frames) /\ Len(current_detections) >= 2
                                        /\ Len(prev) >= 1
    THEN LET s == sorted_detections(current_detections)
         IN  [is_crash |-> TRUE,
              confidence |-> Confidence(idx, total_frames),
              crash_box |-> Some(CrashBox(s[1], s[2]))]
    ELSE NoCrash

detect_crash(current_detections, prev, idx, total_frames) ==
    IF InCrashWindow(idx, total_frames) /\ Len(current_detections) >= 2
    THEN LET s == sorted_detections(current_detections)
         IN  [is_crash |-> TRUE,
              confidence |-> Confidence(idx, total_frames),
              crash_box |-> Some(CrashBox(s[1], s[2]))]
    ELSE NoCrash

----------------------------------------------------------------------------
(* detect_objects, lines 26-65, and simulate_detection, lines 67-97 *)

(* lines 55 and 81 *)
vehicle_classes == {"car", "truck", "bus", "motorcycle"}

(* What the loaded model reports for a frame: boxes with float corners (held
   in tenths of a pixel), a confidence and a class name of the model's own. *)
RawBox(x1, y1, x2, y2, conf, name) ==
    [xyxy |-> <<x1, y1, x2, y2>>, conf |-> conf, name |-> name]
RawCar == RawBox(5, 0, 609, 600, 900, "car")
RawPerson == RawBox(300, 200, 455, 901, 990, "person")
RawTruck == RawBox(501, 407, 1509, 1004, 620, "truck")
YoloResults == SeqsUpTo({RawCar, RawPerson, RawTruck}, 2)

(* int(x) of a non-negative float held in tenths *)
IntOf(tenths) == tenths \div 10

(* lines 45-62: keep the vehicles, corners cut to integers *)
RECURSIVE VehicleDetections(_)
VehicleDetections(boxes) ==
    IF boxes = <<>> THEN <<>>
    ELSE LET b == Head(boxes)
             rest == VehicleDetections(Tail(boxes))
         IN  IF b.name \in vehicle_classes
             THEN <<Detection(IntOf(b.xyxy[1]), IntOf(b.xyxy[2]),
                              IntOf(b.xyxy[3]), IntOf(b.xyxy[4]),
                              b.conf, b.name)>> \o rest
             ELSE rest

(* line 78 with randint(1, 5) *)
NumVehicles_from1 == 1..5

(* line 78: random.randint(2, 5) *)
NumVehicles == 2..5

(* lines 84-85: random.randint(0, width - 100) and random.randint(0, height -
   100) raise ValueError (empty range) when the frame is narrower or lower than
   100 pixels. *)
SimulateRaises(f) == f.width - 100 < 0 \/ f.height - 100 < 0

(* lines 84-89, the draws of one loop iteration: the ends of each range, in
   four combinations. *)
SimDrawSeq(f) ==
    << [x1 |-> 0, y1 |-> 0, dx |-> 50, dy |-> 50,
        confidence |-> 700, class |-> "car"],
       [x1 |-> f.width - 100, y1 |-> f.height - 100, dx |-> 100, dy |-> 100,
        confidence |-> 950, class |-> "truck"],
       [x1 |-> 0, y1 |-> f.height - 100, dx |-> 100, dy |-> 50,
        confidence |-> 825, class |-> "bus"],
       [x1 |-> f.width - 100, y1 |-> 0, dx |-> 50, dy |-> 100,
        confidence |-> 880, class |-> "motorcycle"] >>

SimDraws(f) == {SimDrawSeq(f)[k] : k \in 1..4}

(* lines 86-95 *)
SimDetection(d) ==
    Detection(d.x1, d.y1, d.x1 + d.dx, d.y1 + d.dy, d.confidence, d.class)

(* Lists simulate_detection returns for the frames of a run: one list for
   each length of line 78, its detections taken from the draws in turn. *)
RunSimLists(f) ==
    {[i \in 1..n |-> SimDetection(SimDrawSeq(f)[((i + n) % 4) + 1])] :
        n \in NumVehicles}

(* What detect_objects returns for a frame of a run when it returns: the
   loaded model's vehicles, or simulate_detection's list when the model is
   missing (line 38) or raises (line 65). *)
DetectOutputs ==
    IF model = "yolo" THEN RunDetLists ELSE RunSimLists(frame)

(* detect_objects raises: the fallback of lines 38 and 65 is not guarded. *)
DetectRaises == model # "yolo" /\ SimulateRaises(frame)

----------------------------------------------------------------------------
(* process_frame_with_yolo, lines 146-240.  current_detections is what
   detect_objects returned for the frame; the processed frame is named by the
   index of the frame it was drawn on. *)

(* lines 199-202 without the test of previous_detections *)
process_frame_always(idx, total_frames, prev, current_detections) ==
    LET c == detect_crash(current_detections, prev, idx, total_frames)
    IN  [processed_frame |-> idx,
         is_crash |-> c.is_crash,
         crash_confidence |-> c.confidence,
         current_detections |-> current_detections]

(* the detections sorted in place (list.sort for sorted at line 127) in
   detect_crash: the caller's list comes back reordered *)
process_frame_sorting(idx, total_frames, prev, current_detections) ==
    LET c == IF prev # None
             THEN detect_crash(current_detections, Val(prev), idx, total_frames)
             ELSE NoCrash
    IN  [processed_frame |-> idx,
         is_crash |-> c.is_crash,
         crash_confidence |-> c.confidence,
         current_detections |-> IF prev # None /\ c.is_crash
                                THEN sorted_detections(current_detections)
                                ELSE current_detections]

process_frame_with_yolo(idx, total_frames, prev, current_detections) ==
    LET c == IF prev # None
             THEN detect_crash(current_detections, Val(prev), idx, total_frames)
             ELSE NoCrash
    IN  [processed_frame |-> idx,
         is_crash |-> c.is_crash,
         crash_confidence |-> c.confidence,
         current_detections |-> current_detections]

----------------------------------------------------------------------------
(* process_video_with_yolo, lines 242-331 *)

(* The counts cap.get(CAP_PROP_FRAME_COUNT) (line 262) may report for a
   capture that delivers n frames: n, a count off by CountSkew either way
   (the container's header is an estimate), 0 or -1 (no count known).  The
   code never compares the count with the frames it reads. *)
ReportedCounts(n) ==
    {n, 0, -1, n + CountSkew} \cup (IF n >= CountSkew THEN {n - CountSkew} ELSE {})

Videos ==
    {[opens |-> FALSE, frame_count |-> 0, frames |-> 0, fps |-> 0]}
    \cup UNION {[opens : {TRUE}, frame_count : ReportedCounts(n), frames : {n},
                  fps : FpsValues] : n \in 0..MaxFrames}

(* State before a call on one of the videos V; the locals hold what lines
   274-279 give them. *)
RunInitOn(V) ==
    /\ video \in V
    /\ output_path \in BOOLEAN
    /\ display_func \in BOOLEAN
    /\ pc = "Idle"
    /\ cap = "None"
    /\ out = "None"
    /\ previous_detections = None
    /\ crash_detected = FALSE
    /\ crash_frame = None
    /\ crash_confidence = 0
    /\ crash_time = <<0, 1>>
    /\ frame_idx = 0
    /\ result = None
    /\ exception = "None"
    /\ pending = None
    /\ reads = 0
    /\ hist = <<>>
    /\ written = <<>>
    /\ sunk = <<>>
    /\ detected = None

RunInit == RunInitOn(Videos)

(* lines 255-282 with the isOpened test of line 257 left out *)
Open_unchecked ==
    /\ pc = "Idle"
    /\ cap' = "open"
    /\ out' = IF output_path THEN "open" ELSE "None"
    /\ pc' = "Processing"
    /\ UNCHANGED <<video, output_path, display_func, previous_detections,
                   crash_detected, crash_frame, crash_confidence, crash_time,
                   frame_idx, result, exception, pending, reads, hist, written, sunk,
                   detected, callVars, detVars, envVars>>

(* lines 255-282: open the capture, return the error record when it did not
   open, else create the writer and set the locals *)
Open ==
    /\ pc = "Idle"
    /\ IF ~video.opens
       THEN /\ cap' = "closed"
            /\ out' = out
            /\ pc' = "ErrorReturned"
            /\ result' = Some([error |-> "Could not open video file"])
       ELSE /\ cap' = "open"
            /\ out' = IF output_path THEN "open" ELSE "None"
            /\ pc' = "Processing"
            /\ result' = result
    /\ UNCHANGED <<video, output_path, display_func, previous_detections,
                   crash_detected, crash_frame, crash_confidence, crash_time,
                   frame_idx, exception, pending, reads, hist, written, sunk, detected,
                   callVars, detVars, envVars>>

(* line 291 written (frame_idx + 1) % frame_step == 0 *)
IsProcessedIndex_offByOne(idx) == (idx + 1) % frame_step = 0

(* line 291 *)
IsProcessedIndex(idx) == idx % frame_step = 0

(* line 298 guarded by "if previous_detections is None" *)
NextPrevious_keepFirst(prev, current_detections) ==
    IF prev = None THEN Some(current_detections) ELSE prev

(* line 298 *)
NextPrevious(prev, current_detections) == Some(current_detections)

(* line 310 without the comparison: any crash replaces the best *)
ShouldUpdate_anyCrash(is_crash, confidence) == is_crash

(* line 310 without the comparison: only the first crash is kept *)
ShouldUpdate_firstOnly(is_crash, confidence) == is_crash /\ ~crash_detected

(* line 310 with >= for > *)
ShouldUpdate_geq(is_crash, confidence) ==
    is_crash /\ (~crash_detected \/ confidence >= crash_confidence)

(* line 310 *)
ShouldUpdate(is_crash, confidence) ==
    is_crash /\ (~crash_detected \/ confidence > crash_confidence)

(* lines 285-288 and 291, 316: a frame was read and its index is not a
   multiple of frame_step *)
SkipFrame ==
    /\ pc = "Processing"
    /\ pending = None
    /\ reads < video.frames
    /\ ~IsProcessedIndex(frame_idx)
    /\ reads' = reads + 1
    /\ frame_idx' = frame_idx + 1
    /\ UNCHANGED <<video, output_path, display_func, pc, cap, out,
                   previous_detections, crash_detected, crash_frame,
                   crash_confidence, crash_time, result, exception, pending, hist,
                   written, sunk, detected, callVars, detVars, envVars>>

(* What can go wrong in one iteration, chosen by the environment: the decoded
   frame is malformed (cv2.cvtColor raises at line 160), out.write raises,
   display_func raises.  detect_objects raising (line 165) is decided by the
   model and the frame. *)
Faults == {"none", "frame", "write", "sink"}

(* lines 285-316 for a frame whose index is a multiple of frame_step.
   dets is what detect_objects returns for it.  Without a display_func the
   iteration runs to its end (line 316).  With one, it runs up to the call of
   line 307: control is then in display_func, which may take its time (the
   repository's own sleeps), with the outcome of the frame held in is_crash,
   confidence and processed_frame and not yet stored. *)
ProcessFrame(dets, fault) ==
    /\ pc = "Processing"
    /\ pending = None
    /\ reads < video.frames
    /\ IsProcessedIndex(frame_idx)
    /\ fault # "sink"
    /\ fault = "write" => out = "open"
    /\ LET r == process_frame_with_yolo(frame_idx, video.frame_count,
                                        previous_detections, dets)
           framed == fault # "frame" /\ ~DetectRaises    \* line 293 returned
           wrote == framed /\ fault # "write"             \* line 302 passed
           divSink == wrote /\ display_func /\ video.fps = 0     \* line 306 raises
           called == wrote /\ display_func /\ ~divSink    \* line 307 entered
           upd == wrote /\ ~display_func
                        /\ ShouldUpdate(r.is_crash, r.crash_confidence)
           divUpd == upd /\ video.fps = 0                 \* line 314 raises
           finished == wrote /\ ~display_func /\ ~divUpd  \* line 316 passed
       IN  /\ reads' = reads + 1
           /\ hist' = IF framed
                      THEN Append(hist, [idx |-> frame_idx,
                                         ndets |-> Min(Len(dets), 2),
                                         is_crash |-> r.is_crash,
                                         confidence |-> r.crash_confidence])
                      ELSE hist
           /\ previous_detections' =
                  IF framed
                  THEN NextPrevious(previous_detections, r.current_detections)
                  ELSE previous_detections
           /\ detected' = IF framed THEN Some([idx |-> frame_idx, dets |-> dets])
                          ELSE detected
           /\ written' = IF framed /\ out = "open" THEN Append(written, frame_idx)
                         ELSE written
           /\ sunk' = IF called THEN Append(sunk, <<frame_idx, <<frame_idx, video.fps>>>>)
                      ELSE sunk
           /\ pending' = IF called
                         THEN Some([processed_frame |-> r.processed_frame,
                                    is_crash |-> r.is_crash,
                                    confidence |-> r.crash_confidence])
                         ELSE None
           /\ crash_detected' = IF upd THEN TRUE ELSE crash_detected
           /\ crash_frame' = IF upd THEN Some(r.processed_frame) ELSE crash_frame
           /\ crash_confidence' = IF upd THEN r.crash_confidence ELSE crash_confidence
           /\ crash_time' = IF upd /\ ~divUpd THEN <<frame_idx, video.fps>>
                            ELSE crash_time
           /\ frame_idx' = IF finished THEN frame_idx + 1 ELSE frame_idx
           /\ pc' = IF finished \/ called THEN "Processing" ELSE "Failed"
           /\ exception' = IF finished \/ called THEN "None"
                           ELSE IF fault = "frame" THEN "cv2.error"
                           ELSE IF ~framed THEN "ValueError"
                           ELSE IF ~wrote THEN "WriterError"
                           ELSE "ZeroDivisionError"
    /\ UNCHANGED <<video, output_path, display_func, cap, out, result, callVars,
                   detVars, envVars>>

(* lines 307-316: display_func returns, or raises, and the iteration goes on
   to store the crash of its frame and to count the frame *)
SinkReturn(fault) ==
    /\ pc = "Processing"
    /\ pending # None
    /\ fault \in {"none", "sink"}
    /\ LET p == Val(pending)
           shown == fault # "sink"                        \* line 307 passed
           upd == shown /\ ShouldUpdate(p.is_crash, p.confidence)
           divUpd == upd /\ video.fps = 0                 \* line 314 raises
           finished == shown /\ ~divUpd
       IN  /\ pending' = None
           /\ crash_detected' = IF upd THEN TRUE ELSE crash_detected
           /\ crash_frame' = IF upd THEN Some(p.processed_frame) ELSE crash_frame
           /\ crash_confidence' = IF upd THEN p.confidence ELSE crash_confidence
           /\ crash_time' = IF upd /\ ~divUpd THEN <<frame_idx, video.fps>>
                            ELSE crash_time
           /\ frame_idx' = IF finished THEN frame_idx + 1 ELSE frame_idx
           /\ pc' = IF finished THEN "Processing" ELSE "Failed"
           /\ exception' = IF finished THEN "None"
                           ELSE IF ~shown THEN "SinkError"
                           ELSE "ZeroDivisionError"
    /\ UNCHANGED <<video, output_path, display_func, cap, out, result,
                   previous_detections, reads, hist, written, sunk, detected,
                   callVars, detVars, envVars>>

(* lines 285-288 with "continue" for "break": the loop goes on reading the
   exhausted capture *)
Finish_continue ==
    /\ pc = "Processing"
    /\ pending = None
    /\ reads >= video.frames
    /\ UNCHANGED vars

(* lines 285-288 and 318-331: cap.read() returns ret = False, the capture
   having delivered its video.frames frames; both resources are released and
   the result record is returned, its total_frames the count the capture
   reported at line 262 *)
Finish ==
    /\ pc = "Processing"
    /\ pending = None
    /\ reads >= video.frames
    /\ cap' = "released"
    /\ out' = IF out = "open" THEN "released" ELSE out
    /\ result' = Some(
                 [crash_detected |-> crash_detected,
                  crash_confidence |-> crash_confidence,
                  crash_time |-> crash_time,
                  crash_frame |-> crash_frame,
                  total_frames |-> video.frame_count,
                  fps |-> video.fps])
    /\ pc' = "Completed"
    /\ UNCHANGED <<video, output_path, display_func, previous_detections,
                   crash_detected, crash_frame, crash_confidence, crash_time,
                   frame_idx, exception, pending, reads, hist, written, sunk, detected,
                   callVars, detVars, envVars>>

(* One call of process_video_with_yolo, which its caller lets run *)
Alone == stop = FALSE /\ run2 = None

(* The detector variables while no call of detect_objects is followed on its
   own. *)
DetectIdle ==
    /\ dpc = "idle"
    /\ num_vehicles = 0
    /\ detections = <<>>

Init ==
    /\ RunInit
    /\ args = None
    /\ ret = None
    /\ model = "yolo"
    /\ frame = [width |-> FrameW, height |-> FrameH]
    /\ DetectIdle
    /\ Alone

Next ==
    \/ Open
    \/ SkipFrame
    \/ \E dets \in DetectOutputs, fault \in Faults : ProcessFrame(dets, fault)
    \/ \E fault \in Faults : SinkReturn(fault)
    \/ Finish

Spec == Init /\ [][Next]_vars

(* The function is sequential code that keeps running until it returns or
   raises: a step that can be taken is taken. *)
FairSpec == Spec /\ WF_vars(Next)

(* Runs without a working detector: the model is missing or raises on every
   frame, so every processed frame gets simulate_detection's list. *)
InitFallback ==
    /\ RunInit
    /\ args = None
    /\ ret = None
    /\ model \in {"None", "raising"}
    /\ frame \in {[width |-> FrameW, height |-> FrameH],
                  [width |-> SmallW, height |-> SmallH]}
    /\ DetectIdle
    /\ Alone

SpecFallback == InitFallback /\ [][Next]_vars

(* The 100-frame stream of scenario A: it opens, reports a frame rate, has
   frames the fallback can draw on, and no detector is loaded. *)
InitScenarioA ==
    /\ RunInitOn([opens : {TRUE}, frame_count : {100}, frames : {100},
                  fps : FpsValues \ {0}])
    /\ args = None
    /\ ret = None
    /\ model = "None"
    /\ frame = [width |-> FrameW, height |-> FrameH]
    /\ DetectIdle
    /\ Alone

SpecScenarioA == InitScenarioA /\ [][Next]_vars

(* The 5-frame stream of scenario B: it opens and reports a frame rate; the
   model is loaded or missing, the frames are ones the fallback can draw
   on. *)
InitScenarioB ==
    /\ RunInitOn([opens : {TRUE}, frame_count : {5}, frames : {5},
                  fps : FpsValues \ {0}])
    /\ args = None
    /\ ret = None
    /\ model \in {"yolo", "None"}
    /\ frame \in {[width |-> FrameW, height |-> FrameH],
                  [width |-> 100, height |-> 100]}
    /\ DetectIdle
    /\ Alone

SpecScenarioB == InitScenarioB /\ [][Next]_vars

(* A run whose caller asks it to stop.  process_video_with_yolo(video_path,
   output_path, display_func) takes no stop signal and its loop (lines
   284-288) tests only what cap.read() returned: the request changes the
   caller's flag and nothing the function reads. *)
SignalStop ==
    /\ pc \in {"Idle", "Processing"}
    /\ ~stop
    /\ stop' = TRUE
    /\ UNCHANGED <<runVars, callVars, detVars, run2>>

StopVideos == {v \in Videos : v.frames <= 2 * frame_step + 2}

InitStop ==
    /\ RunInitOn(StopVideos)
    /\ args = None
    /\ ret = None
    /\ model = "yolo"
    /\ frame = [width |-> FrameW, height |-> FrameH]
    /\ DetectIdle
    /\ Alone

NextStop == Next \/ SignalStop

SpecStop == InitStop /\ [][NextStop]_vars

----------------------------------------------------------------------------
(* Two calls of process_video_with_yolo on different videos, their loop
   iterations interleaved.  The first call is the run of the variables above;
   the second call's locals are the record in run2. *)

(* previous_detections, crash_detected, crash_frame, crash_confidence,
   crash_time and frame_idx declared global: what one call assigns is what
   the other call holds *)
OthersLocal_global(mine, assigned) == assigned

(* lines 274-279 and 316: the names assigned are locals of the call (the
   function has no global statement), so what the other call assigns to its
   own does not reach this call's *)
OthersLocal(mine, assigned) == mine

(* lines 274-279: the locals of the second call, its capture open *)
Run2Locals(v) ==
    [video |-> v, pc |-> "Processing", reads |-> 0, frame_idx |-> 0,
     previous_detections |-> None, crash_detected |-> FALSE,
     crash_frame |-> None, crash_confidence |-> 0, crash_time |-> <<0, 1>>,
     hist |-> <<>>, result |-> None]

(* lines 284-331 for the second call: one iteration of its loop on a frame
   that is skipped, or processed with detections dets, or its return at the
   end of its stream *)
Run2After(s, dets) ==
    IF s.reads >= s.video.frames
    THEN [s EXCEPT !.pc = "Completed",
                   !.result = Some([crash_detected |-> s.crash_detected,
                                    crash_confidence |-> s.crash_confidence,
                                    crash_time |-> s.crash_time,
                                    crash_frame |-> s.crash_frame,
                                    total_frames |-> s.video.frame_count,
                                    fps |-> s.video.fps])]
    ELSE IF ~IsProcessedIndex(s.frame_idx)
    THEN [s EXCEPT !.reads = s.reads + 1, !.frame_idx = s.frame_idx + 1]
    ELSE LET r == process_frame_with_yolo(s.frame_idx, s.video.frame_count,
                                          s.previous_detections, dets)
             upd == r.is_crash /\ (~s.crash_detected
                                    \/ r.crash_confidence > s.crash_confidence)
         IN  [s EXCEPT
                 !.reads = s.reads + 1,
                 !.frame_idx = s.frame_idx + 1,
                 !.previous_detections = Some(r.current_detections),
                 !.hist = Append(s.hist, [idx |-> s.frame_idx,
                                          ndets |-> Min(Len(dets), 2),
                                          is_crash |-> r.is_crash,
                                          confidence |-> r.crash_confidence]),
                 !.crash_detected = IF upd THEN TRUE ELSE s.crash_detected,
                 !.crash_frame = IF upd THEN Some(r.processed_frame)
                                 ELSE s.crash_frame,
                 !.crash_confidence = IF upd THEN r.crash_confidence
                                      ELSE s.crash_confidence,
                 !.crash_time = IF upd THEN <<s.frame_idx, s.video.fps>>
                                ELSE s.crash_time]

Run2Step ==
    /\ run2 # None
    /\ Val(run2).pc = "Processing"
    /\ \E dets \in DetectOutputs :
           LET t == Run2After(Val(run2), dets)
           IN  /\ run2' = Some(t)
               /\ previous_detections' =
                      OthersLocal(previous_detections, t.previous_detections)
               /\ crash_detected' = OthersLocal(crash_detected, t.crash_detected)
               /\ crash_frame' = OthersLocal(crash_frame, t.crash_frame)
               /\ crash_confidence' =
                      OthersLocal(crash_confidence, t.crash_confidence)
               /\ crash_time' = OthersLocal(crash_time, t.crash_time)
               /\ frame_idx' = OthersLocal(frame_idx, t.frame_idx)
    /\ UNCHANGED <<video, output_path, display_func, pc, cap, out, result,
                   exception, pending, reads, hist, written, sunk, detected, callVars,
                   detVars, stop>>

(* The first call on a 12-frame video, the second on a 7-frame video *)
InitTwoRuns ==
    /\ RunInitOn({[opens |-> TRUE, frame_count |-> 12, frames |-> 12, fps |-> 30]})
    /\ output_path = FALSE
    /\ args = None
    /\ ret = None
    /\ model = "yolo"
    /\ frame = [width |-> FrameW, height |-> FrameH]
    /\ DetectIdle
    /\ stop = FALSE
    /\ run2 = Some(Run2Locals([opens |-> TRUE, frame_count |-> 7, frames |-> 7,
                             fps |-> 30]))

NextTwoRuns == Next \/ Run2Step

SpecTwoRuns == InitTwoRuns /\ [][NextTwoRuns]_vars

----------------------------------------------------------------------------
(* detect_crash called on its own, on every combination of bounded inputs *)

CallInit ==
    /\ args \in {Some(a) : a \in [current_detections : AllDetLists,
                                  previous_detections : {<<>>, <<DetB>>},
                                  frame_idx : 0..MaxIdx,
                                  total_frames : -1..MaxTotal]}
    /\ ret = None
    /\ video = [opens |-> FALSE, frame_count |-> 0, frames |-> 0, fps |-> 0]
    /\ output_path = FALSE
    /\ display_func = FALSE
    /\ pc = "Idle"
    /\ cap = "None"
    /\ out = "None"
    /\ previous_detections = None
    /\ crash_detected = FALSE
    /\ crash_frame = None
    /\ crash_confidence = 0
    /\ crash_time = <<0, 1>>
    /\ frame_idx = 0
    /\ result = None
    /\ exception = "None"
    /\ pending = None
    /\ reads = 0
    /\ hist = <<>>
    /\ written = <<>>
    /\ sunk = <<>>
    /\ detected = None
    /\ model = "yolo"
    /\ frame = [width |-> FrameW, height |-> FrameH]
    /\ DetectIdle
    /\ Alone

CallDetectCrash ==
    /\ ret = None
    /\ args # None
    /\ ret' = Some(detect_crash(Val(args).current_detections,
                                Val(args).previous_detections,
                                Val(args).frame_idx, Val(args).total_frames))
    /\ UNCHANGED <<args, runVars, detVars, envVars>>

CallNext == CallDetectCrash

SpecCrash == CallInit /\ [][CallNext]_vars

----------------------------------------------------------------------------
(* detect_objects called on its own, on a frame of one of three sizes, with
   the model missing, loaded or raising *)

DetectInit ==
    /\ RunInitOn({[opens |-> FALSE, frame_count |-> 0, frames |-> 0, fps |-> 0]})
    /\ output_path = FALSE
    /\ display_func = FALSE
    /\ args = None
    /\ ret = None
    /\ model \in {"None", "yolo", "raising"}
    /\ frame \in {[width |-> FrameW, height |-> FrameH],
                  [width |-> SmallW, height |-> SmallH],
                  [width |-> 100, height |-> 100]}
    /\ dpc = "call"
    /\ num_vehicles = 0
    /\ detections = <<>>
    /\ Alone

(* lines 36-65: without a model, or when its invocation raises, go to
   simulate_detection (lines 77-81, the count drawn at line 78); else return
   the model's vehicles *)
DetectObjects ==
    /\ dpc = "call"
    /\ IF model = "yolo"
       THEN \E results \in YoloResults :
                /\ detections' = VehicleDetections(results)
                /\ num_vehicles' = num_vehicles
                /\ dpc' = "returned"
       ELSE /\ num_vehicles' \in NumVehicles
            /\ detections' = <<>>
            /\ dpc' = "simulate"
    /\ UNCHANGED <<model, frame, runVars, callVars, envVars>>

(* lines 83-97: one iteration of the loop of simulate_detection, or its
   return *)
SimulateStep ==
    /\ dpc = "simulate"
    /\ IF Len(detections) = num_vehicles
       THEN /\ dpc' = "returned"
            /\ detections' = detections
       ELSE IF SimulateRaises(frame)
       THEN /\ dpc' = "raised"
            /\ detections' = detections
       ELSE /\ dpc' = dpc
            /\ \E d \in SimDraws(frame) :
                   detections' = Append(detections, SimDetection(d))
    /\ UNCHANGED <<model, frame, num_vehicles, runVars, callVars, envVars>>

DetectNext == DetectObjects \/ SimulateStep

SpecDetect == DetectInit /\ [][DetectNext]_vars

----------------------------------------------------------------------------
(* Properties of one run (specification Spec) *)

(* Indices of the processed frames whose evaluation returned is_crash = True *)
CrashEntries == {i \in DOMAIN hist : hist[i].is_crash}

(* a / b = c / d for times held as fractions *)
SameTime(t, u) == t[1] * u[2] = u[1] * t[2]

(* C1: during a run the stored crash_confidence never decreases: every step
   leaves it as it was or replaces it by a confidence that is not lower. *)
C1_BestConfidenceNeverDecreases ==
    [][crash_confidence' >= crash_confidence]_vars

(* C1 witness: the best was raised by a later crash frame and then kept
   against a crash frame of lower confidence. *)
C1_Witness ==
    \E i, j, k \in CrashEntries :
        /\ i < j /\ j < k
        /\ hist[i].confidence < hist[j].confidence
        /\ hist[k].confidence < hist[j].confidence
        /\ crash_confidence = hist[j].confidence

(* C2: when the run has returned its result, crash_confidence is the maximum
   confidence over the processed frames evaluated is_crash = True, and
   crash_time is frame_idx / fps of a processed frame that attained it. *)
C2_ResultIsMaximum ==
    (pc = "Completed" /\ CrashEntries # {}) =>
        LET r == Val(result)
        IN  /\ r.crash_detected
            /\ \A i \in CrashEntries : hist[i].confidence <= r.crash_confidence
            /\ \E i \in CrashEntries :
                   /\ hist[i].confidence = r.crash_confidence
                   /\ SameTime(r.crash_time, <<hist[i].idx, video.fps>>)

(* C2 witness: a completed run with crash frames of different confidence, the
   last of them not the best. *)
C2_Witness ==
    /\ pc = "Completed"
    /\ \E i, j \in CrashEntries :
           /\ i < j
           /\ hist[j].confidence < hist[i].confidence
           /\ \A k \in CrashEntries : k <= j
           /\ Val(result).crash_confidence = hist[i].confidence

(* C6 as stated: the first processed frame of a run, for which
   previous_detections is None, is evaluated like any other: inside the crash
   window with at least 2 detections it is reported as a crash. *)
C6_FirstFrameEvaluated ==
    (Len(hist) >= 1 /\ hist[1].ndets >= 2
       /\ Abs(hist[1].idx - crash_point(video.frame_count)) < 10)
    => hist[1].is_crash

(* C6 amended: crash inference is skipped on the first processed frame
   (previous_detections is None): it is reported is_crash = False with
   confidence 0.0 whatever its position and detections; every later processed
   frame is a crash exactly when it lies inside the window and has at least 2
   detections. *)
C6_FirstFrameNeverCrash ==
    \A i \in DOMAIN hist :
        /\ hist[i].is_crash <=>
              (/\ i > 1
               /\ hist[i].ndets >= 2
               /\ Abs(hist[i].idx - crash_point(video.frame_count)) < 10)
        /\ i = 1 => hist[i].confidence = 0

(* C6 witness: the first processed frame was inside the window with 2
   detections and was not reported, the second one was. *)
C6_Witness ==
    /\ Len(hist) >= 2
    /\ hist[1].ndets >= 2
    /\ Abs(hist[1].idx - crash_point(video.frame_count)) < 10
    /\ ~hist[1].is_crash
    /\ hist[2].is_crash

(* C7 as stated: a video that cannot be opened makes the call fail with an
   IOError: nothing is returned, no frame is read, written or shown. *)
C7_OpenFailureRaisesIOError ==
    (~video.opens /\ pc # "Idle") =>
        /\ pc = "Failed"
        /\ exception = "IOError"
        /\ result = None
        /\ reads = 0 /\ hist = <<>> /\ written = <<>> /\ sunk = <<>>

(* C7 amended: a video that cannot be opened makes the call return the record
   {"error": "Could not open video file"} without raising; that record has
   none of the result fields, and no frame is read, written or shown. *)
C7_OpenFailureReturnsErrorRecord ==
    (~video.opens /\ pc # "Idle") =>
        /\ pc = "ErrorReturned"
        /\ exception = "None"
        /\ result = Some([error |-> "Could not open video file"])
        /\ reads = 0 /\ hist = <<>> /\ written = <<>> /\ sunk = <<>>

(* C7 witness: the call on an unopenable video has returned. *)
C7_Witness == ~video.opens /\ pc = "ErrorReturned" /\ result # None

(* C8: a video that opens but delivers no frame never ends in a completed
   result; the call fails as for a video that does not open. *)
C8_ZeroFramesIsOpenFailure ==
    (video.opens /\ video.frames = 0 /\ pc \notin {"Idle", "Processing"})
    => (pc = "Failed" /\ result = None)

(* C9: whenever control has left a call whose capture was opened, by the
   stream ending or by a failure inside the frame loop, the capture is
   released, and so is the writer if one was created. *)
C9_ReleasedOnExit ==
    (pc \in {"Completed", "Failed"}) =>
        /\ cap = "released"
        /\ out \in {"None", "released"}

(* C10: the frames sent through detection, crash inference and annotation are
   exactly those with frame_idx % 5 = 0, in the order 0, 5, 10, ...; no other
   frame is detected on, written or passed to the sink. *)
C10_ExactlyEveryFifthFrame ==
    /\ \A i \in DOMAIN hist : hist[i].idx = 5 * (i - 1)
    /\ \A i \in DOMAIN written : written[i] = 5 * (i - 1)
    /\ \A i \in DOMAIN sunk : sunk[i][1] = 5 * (i - 1)
    /\ Len(written) <= Len(hist) /\ Len(sunk) <= Len(hist)
    /\ pc \in {"Processing", "Completed"} =>
           \A k \in 0..(frame_idx - 1) :
               k % 5 = 0 => \E i \in DOMAIN hist : hist[i].idx = k

(* C10 witness: frames 0, 5 and 10 were processed, written and shown, and the
   frames between them were read and skipped. *)
C10_Witness ==
    /\ Len(hist) = 3 /\ Len(written) = 3 /\ Len(sunk) = 3
    /\ frame_idx = 14 /\ reads = 14

----------------------------------------------------------------------------
(* Properties of detect_crash (specification SpecCrash) *)

Distance == Abs(Val(args).frame_idx - crash_point(Val(args).total_frames))

(* C3: detect_crash returns (False, 0.0, None) whenever frame_idx is outside
   the window (at distance 10 or more from crash_point), whatever the
   detections, and whenever there are fewer than 2 detections, whatever
   frame_idx. *)
C3_NoCrashOutsideWindowOrFewDetections ==
    (ret # None /\ (Distance >= 10 \/ Len(Val(args).current_detections) < 2))
    => Val(ret) = [is_crash |-> FALSE, confidence |-> 0, crash_box |-> None]

(* C3 witness: a call before the window with the most detections, answered
   negatively. *)
C3_Witness ==
    /\ ret # None
    /\ Val(args).frame_idx + 10 < crash_point(Val(args).total_frames)
    /\ Len(Val(args).current_detections) >= 2
    /\ ~Val(ret).is_crash

(* C4: inside the window (distance below 10) with at least 2 detections,
   detect_crash returns is_crash = True with confidence
   0.7 + 0.3 * (1 - distance / 10), which lies in (0.7, 1.0] and is 1.0 only at
   frame_idx = crash_point. *)
C4_ConfidenceInsideWindow ==
    (ret # None /\ Distance < 10 /\ Len(Val(args).current_detections) >= 2) =>
        /\ Val(ret).is_crash
        /\ Val(ret).confidence = 700 + 30 * (10 - Distance)
        /\ 700 < Val(ret).confidence /\ Val(ret).confidence <= 1000
        /\ Val(ret).confidence = 1000 <=>
               Val(args).frame_idx = crash_point(Val(args).total_frames)

(* C4 witness: a crash reported at the last frame of the window. *)
C4_Witness ==
    /\ ret # None
    /\ Val(args).frame_idx = crash_point(Val(args).total_frames) + 9
    /\ Val(ret).is_crash
    /\ Val(ret).confidence = 730

(* C5: the crash region, when there is one, lies within the frame, for
   detections whose boxes lie within the frame. *)
C5_RegionWithinFrame ==
    (/\ ret # None
     /\ Val(ret).crash_box # None
     /\ \A i \in DOMAIN Val(args).current_detections :
            InFrame(Val(args).current_detections[i].box))
    => InFrame(Val(Val(ret).crash_box))

----------------------------------------------------------------------------
(* Properties of one run, continued (specifications Spec and FairSpec) *)

Terminated == pc \in {"Completed", "ErrorReturned", "Failed"}

(* C11: previous_detections changes only when a frame is processed; when the
   processing of frame k (k > 0, k % 5 = 0) starts it holds the detections
   produced for frame k - 5; reading a skipped frame leaves
   previous_detections and the four crash fields unchanged. *)
C11_PreviousDetectionsFromLastProcessed ==
    [][ /\ (reads' = reads + 1 /\ frame_idx % 5 # 0) =>
               UNCHANGED <<previous_detections, crash_detected, crash_confidence,
                           crash_time, crash_frame>>
        /\ previous_detections' # previous_detections =>
               (frame_idx % 5 = 0 /\ reads' = reads + 1 /\ Len(hist') = Len(hist) + 1)
        /\ (reads' = reads + 1 /\ frame_idx % 5 = 0 /\ frame_idx > 0) =>
               /\ detected # None
               /\ Val(detected).idx = frame_idx - 5
               /\ previous_detections = Some(Val(detected).dets)
      ]_vars

(* C11 witness: frame 10 is about to be processed, after the skipped frames 6
   to 9, with the detections of frame 5 at hand, which differ from those of
   frame 0 (3 against fewer). *)
C11_Witness ==
    /\ pc = "Processing" /\ frame_idx = 10 /\ reads = 10
    /\ Val(detected).idx = 5
    /\ previous_detections # None
    /\ Len(Val(previous_detections)) = 3
    /\ hist[1].ndets < 2

(* C12: with a display_func, the sink is called exactly once for each
   processed frame, with (frame, frame_idx, frame_idx / fps), in the order of
   the processed frames; without one it is never called.  A frame whose
   processing was cut short by a malformed frame or by the writer is not
   counted. *)
C12_SinkOncePerProcessedFrame ==
    /\ ~display_func => sunk = <<>>
    /\ display_func =>
         /\ exception \notin {"cv2.error", "WriterError", "ValueError"} =>
                Len(sunk) = Len(hist)
         /\ \A i \in DOMAIN sunk :
                sunk[i] = <<hist[i].idx, <<hist[i].idx, video.fps>>>>

(* C13: a run on a video that opens terminates; once the stream is exhausted
   it reaches Completed, and the result returned then holds the best crash so
   far (crash_detected = False when no processed frame was a crash) with
   total_frames and fps of the capture. *)
C13_TerminatesWithResult ==
    /\ <>Terminated
    /\ (pc = "Processing" /\ pending = None /\ reads >= video.frames)
           ~> (pc = "Completed")
    /\ [](pc = "Completed" =>
            /\ reads = video.frames
            /\ result = Some([crash_detected |-> CrashEntries # {},
                              crash_confidence |-> crash_confidence,
                              crash_time |-> crash_time,
                              crash_frame |-> crash_frame,
                              total_frames |-> video.frame_count,
                              fps |-> video.fps])
            /\ CrashEntries = {} =>
                   (crash_confidence = 0 /\ crash_time = <<0, 1>> /\ crash_frame = None))

(* C13 witness: a run over a whole video has returned a detected crash. *)
C13_Witness ==
    /\ pc = "Completed"
    /\ reads = video.frames /\ reads >= 20
    /\ video.frame_count # video.frames
    /\ Val(result).crash_detected
    /\ Val(result).total_frames = video.frame_count

(* Confidences are held in thousandths: [0, 1] is 0..1000. *)
UnitInterval == 0..1000

ConfidencesOf(dets) == {dets[i].confidence : i \in DOMAIN dets}

(* C14: in every state of a run, the confidence of every detection
   detect_objects produced, every crash confidence detect_crash produced
   for a processed frame, the best confidence of the run and the one in the
   result are in [0, 1]. *)
C14_ConfidencesInUnitInterval ==
    /\ detected # None => ConfidencesOf(Val(detected).dets) \subseteq UnitInterval
    /\ previous_detections # None =>
           ConfidencesOf(Val(previous_detections)) \subseteq UnitInterval
    /\ \A i \in DOMAIN hist : hist[i].confidence \in UnitInterval
    /\ crash_confidence \in UnitInterval
    /\ pc = "Completed" => Val(result).crash_confidence \in UnitInterval

(* C14 witness: a completed run on fallback detections (confidence 0.95 among
   them) with crashes at both ends of the confidence range of the window. *)
C14_Witness ==
    /\ pc = "Completed" /\ model # "yolo" /\ detected # None
    /\ 950 \in ConfidencesOf(Val(detected).dets)
    /\ \E i, j \in CrashEntries : hist[i].confidence = 1000 /\ hist[j].confidence = 850
    /\ Val(result).crash_confidence = 1000

----------------------------------------------------------------------------
(* Properties of detect_crash, continued (specification SpecCrash) *)

DistanceOf(idx) == Abs(idx - crash_point(Val(args).total_frames))

ConfidenceAt(idx) ==
    detect_crash(Val(args).current_detections, Val(args).previous_detections,
                 idx, Val(args).total_frames).confidence

(* C15: for fixed detections and total_frames the confidence detect_crash
   returns does not increase with the distance from the crash point: a frame
   index at least as far from it as the one of the call has a confidence that
   is no higher. *)
C15_ConfidenceMonotoneInDistance ==
    ret # None =>
        \A b \in 0..MaxIdx :
            Distance <= DistanceOf(b) => Val(ret).confidence >= ConfidenceAt(b)

(* C15 witness: a crash inside the window off its centre, with a farther
   frame index still inside the window (strictly lower confidence), one
   outside it (confidence 0), and one at the same distance on the other side. *)
C15_Witness ==
    /\ ret # None /\ Val(ret).is_crash
    /\ Distance = 3
    /\ \E b \in 0..MaxIdx : DistanceOf(b) = 7 /\ ConfidenceAt(b) = 790
    /\ \E b \in 0..MaxIdx : DistanceOf(b) > 9 /\ ConfidenceAt(b) = 0
    /\ \E b \in 0..MaxIdx :
           /\ b # Val(args).frame_idx /\ DistanceOf(b) = 3
           /\ ConfidenceAt(b) = Val(ret).confidence

WellFormed(dets) ==
    \A i \in DOMAIN dets : dets[i].box[1] < dets[i].box[3] /\ dets[i].box[2] < dets[i].box[4]

(* C16: for well-formed detection boxes, a crash region returned by
   detect_crash is at least 20 pixels wide and 20 pixels high. *)
C16_RegionAtLeastMargin ==
    (ret # None /\ WellFormed(Val(args).current_detections)
                /\ Val(ret).crash_box # None) =>
        LET b == Val(Val(ret).crash_box)
        IN  b[3] - b[1] >= 20 /\ b[4] - b[2] >= 20

(* C16 witness: the two detections are the same small vehicle, 5 by 5 pixels;
   the region is 25 by 25. *)
C16_Witness ==
    /\ ret # None /\ Val(ret).crash_box # None
    /\ Val(args).current_detections = <<DetD, DetD>>
    /\ Val(Val(ret).crash_box) = <<10, 20, 35, 45>>

----------------------------------------------------------------------------
(* Properties of the fallback detector (specifications SpecFallback and
   SpecDetect) *)

BoxWithin(b, f) ==
    /\ 0 <= b[1] /\ b[1] < b[3] /\ b[3] <= f.width
    /\ 0 <= b[2] /\ b[2] < b[4] /\ b[4] <= f.height

(* C17: a failure of the detector never leaves detect_objects: in a run
   whose model is missing or raises on every frame, no frame ends the run
   with the detector's exception, every processed frame has the fallback's
   detections, and the run that has read its whole stream without a fault of
   the writer or the sink completes with a result. *)
C17_DetectorFailureNeverPropagates ==
    /\ exception # "ValueError"
    /\ (model # "yolo" /\ detected # None) => Len(Val(detected).dets) \in NumVehicles
    /\ (model # "yolo" /\ pc = "Failed") =>
           exception \in {"cv2.error", "WriterError", "SinkError", "ZeroDivisionError"}

(* C18: a call of detect_objects that takes the fallback ends by returning
   2 to 5 detections, each with its box within the frame, a confidence in
   [0.7, 0.95] and a vehicle class. *)
C18_FallbackReturnsVehiclesInFrame ==
    (model # "yolo" /\ dpc \notin {"call", "simulate"}) =>
        /\ dpc = "returned"
        /\ Len(detections) \in 2..5
        /\ \A i \in DOMAIN detections :
               /\ BoxWithin(detections[i].box, frame)
               /\ detections[i].confidence \in 700..950
               /\ detections[i].class \in vehicle_classes

----------------------------------------------------------------------------
(* Properties of runs with the fallback detector (specifications
   SpecFallback and SpecScenarioA) *)

(* The processed frames of a stream that lie in the crash window and are not
   the first processed frame. *)
WindowFrames(v) ==
    {k \in 1..(v.frames - 1) :
        k % frame_step = 0 /\ Abs(k - crash_point(v.frame_count)) < crash_window}

(* The best crash of a stream as a function of the stream alone: the frame of
   WindowFrames nearest to the crash point, the earliest of two at the same
   distance. *)
BestOfStream(v) ==
    IF WindowFrames(v) = {}
    THEN [crash_detected |-> FALSE, crash_confidence |-> 0, crash_time |-> <<0, 1>>]
    ELSE LET d(k) == Abs(k - crash_point(v.frame_count))
             best == CHOOSE k \in WindowFrames(v) :
                         \A j \in WindowFrames(v) :
                             d(k) < d(j) \/ (d(k) = d(j) /\ k <= j)
         IN  [crash_detected |-> TRUE,
              crash_confidence |-> 1000 - 30 * d(best),
              crash_time |-> <<best, v.fps>>]

(* C19: with the fallback detector, the crash_detected, crash_confidence and
   crash_time a run returns are determined by the stream, whatever the
   fallback drew: two runs over the same stream return the same three
   values. *)
C19_FallbackResultDeterminedByStream ==
    (model # "yolo" /\ pc = "Completed") =>
        /\ Val(result).crash_detected = BestOfStream(video).crash_detected
        /\ Val(result).crash_confidence = BestOfStream(video).crash_confidence
        /\ Val(result).crash_time = BestOfStream(video).crash_time

(* C19 witness: a completed fallback run that returned a crash off the crash
   point, its last processed frame having 5 drawn detections (another run
   over the stream ends with 2). *)
C19_Witness ==
    /\ model # "yolo" /\ pc = "Completed"
    /\ Val(result).crash_detected
    /\ Val(result).crash_confidence \in 730..999
    /\ Val(result).crash_time[2] = video.fps
    /\ detected # None /\ Len(Val(detected).dets) = 5

(* C20: scenario A, a 100-frame stream with the fallback detector: the run
   that returns reports crash_detected = True and a crash_time whose frame is
   within 5 frames of frame 70; a run that does not return was ended by its
   frame source, writer or sink. *)
C20_ScenarioACrashNearCentre ==
    /\ pc = "Completed" =>
           /\ Val(result).crash_detected
           /\ Abs(Val(result).crash_time[1] - 70) <= frame_step
           /\ Val(result).crash_time[2] = video.fps
           /\ Val(result).total_frames = 100
    /\ pc = "Failed" => exception \in {"cv2.error", "WriterError", "SinkError"}

(* C20 witness: the run returned the crash of frame 70, the crash point of
   100 frames, at 70 / fps seconds with confidence 1.0, having read all 100
   frames and processed 20. *)
C20_Witness ==
    /\ pc = "Completed" /\ reads = 100 /\ Len(hist) = 20
    /\ crash_point(video.frame_count) = 70
    /\ Val(result).crash_time = <<70, video.fps>>
    /\ Val(result).crash_confidence = 1000

----------------------------------------------------------------------------
(* Scenario B (specification SpecScenarioB) *)

(* C21: scenario B, a 5-frame stream, crash point int(5 * 0.7) = 3: the
   code raises nothing (a run that does not return was ended by its frame
   source, writer or sink) and the run that returns has a well-defined
   result whose crash_detected is the same in every run: False, with
   confidence 0.0 and time 0.0, frame 0 being the only frame processed. *)
C21_ScenarioBReturnsNoCrash ==
    /\ pc = "Failed" => exception \in {"cv2.error", "WriterError", "SinkError"}
    /\ pc = "Completed" =>
           /\ reads = 5
           /\ Val(result) = [crash_detected |-> FALSE,
                             crash_confidence |-> 0,
                             crash_time |-> <<0, 1>>,
                             crash_frame |-> None,
                             total_frames |-> 5,
                             fps |-> video.fps]

(* C21 witness: the run returned after its 5 frames; frame 0, inside the
   window (|0 - 3| < 10) and with at least 2 detections, is the only one
   processed. *)
C21_Witness ==
    /\ pc = "Completed" /\ reads = 5 /\ Len(hist) = 1
    /\ crash_point(video.frame_count) = 3
    /\ InCrashWindow(hist[1].idx, video.frame_count)
    /\ hist[1].ndets = 2
    /\ ~Val(result).crash_detected

----------------------------------------------------------------------------
(* A run that is asked to stop (specification SpecStop) *)

(* C22: once the caller has signalled a stop, no further frame is processed,
   and the run that has returned has released the video capture. *)
C22_NoFrameProcessedAfterStop ==
    /\ [][stop => Len(hist') = Len(hist)]_vars
    /\ [](stop /\ pc = "Completed" => cap = "released")

----------------------------------------------------------------------------
(* Properties of one run, third part (specification Spec) *)

(* C23: a malformed decoded frame at a processed index does not abort the
   run: no run ends with the error of the frame conversion, and the step that
   reads such a frame leaves previous_detections and the best crash as they
   were and goes on to the next frame. *)
C23_MalformedFrameIsSkipped ==
    /\ exception # "cv2.error"
    /\ (pc = "Failed" /\ exception \notin {"WriterError", "SinkError",
                                           "ZeroDivisionError", "ValueError"}) =>
           frame_idx = reads

----------------------------------------------------------------------------
(* Two interleaved runs (specification SpecTwoRuns) *)

(* The outcome of the i-th processed frame of a run on its own, from the
   frame's index and its number of detections: the first processed frame is
   not evaluated. *)
CrashAlone(h, v, i) ==
    i > 1 /\ h[i].ndets >= 2 /\ InCrashWindow(h[i].idx, v.frame_count)

(* What a run on its own returns for the processed frames h of video v *)
ResultAlone(h, v) ==
    LET C == {i \in DOMAIN h : CrashAlone(h, v, i)}
        conf(i) == Confidence(h[i].idx, v.frame_count)
    IN  IF C = {}
        THEN [crash_detected |-> FALSE, crash_confidence |-> 0,
              crash_time |-> <<0, 1>>]
        ELSE LET b == CHOOSE i \in C :
                          \A j \in C : conf(i) > conf(j) \/ (conf(i) = conf(j) /\ i <= j)
             IN  [crash_detected |-> TRUE, crash_confidence |-> conf(b),
                  crash_time |-> <<h[b].idx, v.fps>>]

SameCrashFields(res, alone) ==
    /\ res.crash_detected = alone.crash_detected
    /\ res.crash_confidence = alone.crash_confidence
    /\ res.crash_time = alone.crash_time

(* C24: with two runs interleaved, a step of one run leaves the other run's
   previous_detections, frame_idx and best crash unchanged, and each run
   returns what it returns on its own for the detections its frames had. *)
C24_RunsShareNoState ==
    /\ [][ /\ run2' # run2 =>
                  UNCHANGED <<previous_detections, frame_idx, crash_detected,
                              crash_confidence, crash_time, crash_frame>>
           /\ <<previous_detections, frame_idx, crash_detected, crash_confidence,
                crash_time, crash_frame>>' #
              <<previous_detections, frame_idx, crash_detected, crash_confidence,
                crash_time, crash_frame>> => run2' = run2 ]_vars
    /\ [](pc = "Completed" =>
              SameCrashFields(Val(result), ResultAlone(hist, video)))
    /\ [](Val(run2).pc = "Completed" =>
              SameCrashFields(Val(Val(run2).result),
                              ResultAlone(Val(run2).hist, Val(run2).video)))

(* C24 witness: the first run is inside display_func (line 307) for its
   frame 5, whose crash (confidence 0.91) it has not stored yet, and the
   second run has meanwhile run to its end and returned the crash of its own
   frame 5 (confidence 0.97 in the 7-frame video). *)
C24_Witness ==
    /\ pc = "Processing" /\ reads = 6 /\ frame_idx = 5
    /\ pending # None /\ Val(pending).is_crash /\ Val(pending).confidence = 910
    /\ ~crash_detected /\ crash_confidence = 0
    /\ Val(run2).pc = "Completed"
    /\ Val(Val(run2).result).crash_confidence = 970
    /\ Val(Val(run2).result).crash_time = <<5, 30>>

(* Both runs have returned, each its own best crash: frame 10 of the first
   video, frame 5 of the second. *)
C24_BothReturned ==
    /\ pc = "Completed" /\ Val(run2).pc = "Completed"
    /\ Val(result).crash_time = <<10, 30>> /\ Val(result).crash_confidence = 940
    /\ Val(Val(run2).result).crash_time = <<5, 30>>
    /\ Val(Val(run2).result).crash_confidence = 970

----------------------------------------------------------------------------
(* Properties of detect_crash, third part (specification SpecCrash) *)

(* The position in dets, outside excl, of a detection of the largest area,
   the first such position. *)
LargestAt(dets, excl) ==
    CHOOSE i \in DOMAIN dets \ excl :
        \A k \in DOMAIN dets \ excl :
            Area(dets[i]) > Area(dets[k]) \/ (Area(dets[i]) = Area(dets[k]) /\ i <= k)

UnionGrown(b, c, margin) ==
    << Min(b[1], c[1]) - margin, Min(b[2], c[2]) - margin,
       Max(b[3], c[3]) + margin, Max(b[4], c[4]) + margin >>

(* C25: when detect_crash reports a crash, its region is the union, grown by
   10 pixels on each side, of the boxes of the two detections of largest
   area, the earlier of the input list being taken among detections of equal
   area. *)
C25_TwoLargestEarliestFirst ==
    (ret # None /\ Val(ret).is_crash) =>
        LET dets == Val(args).current_detections
            i == LargestAt(dets, {})
            j == LargestAt(dets, {i})
        IN  Val(ret).crash_box = Some(UnionGrown(dets[i].box, dets[j].box, 10))

(* C25 witness: of the two detections of area 3600 the first of the list is
   taken with the larger third one; the region does not reach the second,
   which touches the right edge of the frame. *)
C25_Witness ==
    /\ ret # None /\ Val(ret).is_crash
    /\ Val(args).current_detections = <<DetA, DetC, DetB>>
    /\ Area(DetA) = Area(DetC) /\ Area(DetB) > Area(DetA)
    /\ Val(ret).crash_box = Some(<<-10, -10, 160, 110>>)

(* The lists previous_detections may hold *)
PreviousLists == SeqsUpTo(DetPool, 2)

(* C26: what detect_crash returns does not depend on previous_detections:
   the call with any other previous_detections, the empty list included, and
   the same current_detections, frame_idx and total_frames returns the same
   is_crash, confidence and crash_box. *)
C26_IndependentOfPrevious ==
    ret # None =>
        \A p \in PreviousLists :
            Val(ret) = detect_crash(Val(args).current_detections, p,
                                    Val(args).frame_idx, Val(args).total_frames)

(* C26 witness: a crash returned by a call whose previous_detections holds
   a detection; the call with the empty list returns the same. *)
C26_Witness ==
    /\ ret # None /\ Val(ret).is_crash
    /\ Val(args).previous_detections = <<DetB>>
    /\ <<>> \in PreviousLists /\ <<DetA, DetD>> \in PreviousLists
    /\ Val(ret) = detect_crash(Val(args).current_detections, <<>>,
                               Val(args).frame_idx, Val(args).total_frames)

----------------------------------------------------------------------------
(* Properties of one run, fourth part (specification Spec) *)

(* C27: annotating changes no numeric result and no input: the detections
   process_frame_with_yolo returned for the last processed frame (kept in
   previous_detections) are the list detect_objects produced for it, in its
   order, and the is_crash and confidence reported for the frame are those
   of detect_crash on that list (False and 0.0 for the first processed
   frame, which is not evaluated). *)
C27_AnnotationChangesNothing ==
    (detected # None /\ hist # <<>>) =>
        LET last == hist[Len(hist)]
            d == Val(detected).dets
            c == detect_crash(d, <<>>, last.idx, video.frame_count)
        IN  /\ last.idx = Val(detected).idx
            /\ previous_detections = Some(d)
            /\ IF Len(hist) = 1
               THEN ~last.is_crash /\ last.confidence = 0
               ELSE last.is_crash = c.is_crash /\ last.confidence = c.confidence

(* C27 witness: a frame reported as a crash whose detections are not in
   descending order of area: the list returned is in the detector's order. *)
C27_Witness ==
    /\ detected # None /\ Len(hist) >= 2
    /\ hist[Len(hist)].is_crash
    /\ Val(detected).dets = <<DetA, DetB>>
    /\ sorted_detections(Val(detected).dets) = <<DetB, DetA>>
    /\ previous_detections = Some(<<DetA, DetB>>)

(* C28: throughout a run and in its result, crash_detected is False exactly
   when crash_frame is None, and then crash_confidence is 0.0 and crash_time
   is 0.0; when crash_detected is True crash_confidence is above 0.7, and
   crash_detected once True stays True. *)
C28_CrashFieldsConsistent ==
    /\ [](crash_detected <=> crash_frame # None)
    /\ [](~crash_detected => crash_confidence = 0 /\ crash_time = <<0, 1>>)
    /\ [](crash_detected => crash_confidence > 700)
    /\ [][crash_detected => crash_detected']_vars
    /\ [](pc = "Completed" =>
            LET r == Val(result)
            IN  /\ r.crash_detected <=> r.crash_frame # None
                /\ ~r.crash_detected =>
                       r.crash_confidence = 0 /\ r.crash_time = <<0, 1>>
                /\ r.crash_detected => r.crash_confidence > 700)

(* C28 witness: a run returned a crash found at the edge of the window
   (distance 9, confidence 0.73), after processed frames that were no crash. *)
C28_Witness ==
    /\ pc = "Completed"
    /\ Val(result).crash_detected
    /\ Val(result).crash_confidence = 730
    /\ Val(result).crash_frame # None
    /\ \E i \in DOMAIN hist : i > 1 /\ ~hist[i].is_crash

(* The processed frames that attained the highest crash confidence *)
BestEntries ==
    {i \in CrashEntries : \A j \in CrashEntries : hist[j].confidence <= hist[i].confidence}

(* C29: when several processed frames reach the same highest crash
   confidence, the run returns the earliest of them: crash_time is frame_idx
   / fps of the smallest processed index that attains the maximum. *)
C29_EarliestOfEqualMaximum ==
    (pc = "Completed" /\ CrashEntries # {}) =>
        \E i \in BestEntries :
            /\ \A j \in BestEntries : hist[i].idx <= hist[j].idx
            /\ Val(result).crash_time = <<hist[i].idx, video.fps>>
            /\ Val(result).crash_frame = Some(hist[i].idx)

(* C29 witness: two processed frames at the same distance on either side of
   the crash point share the highest confidence (the frame at the crash point
   having fewer than 2 detections); the earlier is returned. *)
C29_Witness ==
    /\ pc = "Completed"
    /\ \E i, j \in BestEntries :
           /\ hist[i].idx < hist[j].idx
           /\ crash_point(video.frame_count) - hist[i].idx =
                  hist[j].idx - crash_point(video.frame_count)
           /\ Val(result).crash_time = <<hist[i].idx, video.fps>>

(* C30: every timestamp of a run is computed with fps > 0, and no run on a
   video that opens, one that reports fps = 0 included, ends with a division
   error. *)
C30_NoDivisionByZero ==
    /\ exception # "ZeroDivisionError"
    /\ \A i \in DOMAIN sunk : sunk[i][2][2] > 0
    /\ crash_time[2] > 0

====
